---- MODULE Spec2Model ----
(***************************************************************************)
(* The to-do list component TodoApp (src/unnamed/part_000, the latest      *)
(* revision; src/app/page.tsx holds two earlier revisions of the same      *)
(* component without reordering and editing).                              *)
(*                                                                         *)
(* Strings are sequences of one-character strings, so that trim, the JSON  *)
(* text written to localStorage and its parsing are computed, not assumed. *)
(* JavaScript values are modelled as: number -> Int, string -> sequence of *)
(* characters, boolean -> BOOLEAN, array -> sequence, object -> record,    *)
(* null -> Null, undefined -> Undefined.                                   *)
(***************************************************************************)
EXTENDS Integers, Sequences, FiniteSets, TLC

VARIABLES
    pc,           \* position of the component: "mounted", "mount_save", "rerender", "ready", "crashed"
    todos,        \* useState<Todo[]>([])            part_000:13
    inputText,    \* useState<string>('')            part_000:14
    isLoaded,     \* useState<boolean>(false)        part_000:15
    editingId,    \* useState<number | null>(null)   part_000:16
    editingText,  \* useState<string>('')            part_000:17
    storage,      \* window.localStorage: a function from keys to stored strings
    now,          \* the last value Date.now() returned (milliseconds)
    pend,         \* state updates queued by the mount effects, applied by the next render
    issued,       \* history: the ids addTodo has issued in this session
    steps,        \* history: the number of intents handled in this session
    last,         \* history: the intent handled last
    prev          \* history: the value of todos before the intent handled last

vars == <<pc, todos, inputText, isLoaded, editingId, editingText, storage, now,
          pend, issued, steps, last, prev>>

(***************************************************************************)
(* Bounds of the model.                                                    *)
(***************************************************************************)
MaxIntents == 4      \* intents handled in one session of Spec
MaxTicks == 1        \* milliseconds that can elapse in one session
MaxLen == 3          \* longest list the handlers are applied to in SpecOps

\* Date.now() when the session starts; the real value is about 1.7 * 10^12,
\* far above the ids 1, 2, 3 of the default list.
StartTime == 10

(***************************************************************************)
(* JavaScript values.                                                      *)
(***************************************************************************)
Null == [null |-> TRUE]
Undefined == [undefined |-> TRUE]

\* obj[key], undefined when the object has no such property
Has(obj, key) == key \in DOMAIN obj

\* {...obj, [key]: value}
Spread(obj, key, value) ==
    [k \in (DOMAIN obj) \cup {key} |-> IF k = key THEN value ELSE obj[k]]

\* String.prototype.trim on the characters of the model (the only white
\* space character is the blank)
RECURSIVE TrimStart(_)
TrimStart(s) ==
    IF s # <<>> /\ Head(s) = " " THEN TrimStart(Tail(s)) ELSE s

RECURSIVE TrimEnd(_)
TrimEnd(s) ==
    IF s # <<>> /\ s[Len(s)] = " " THEN TrimEnd(SubSeq(s, 1, Len(s) - 1)) ELSE s

\* a trim that leaves the blanks at the end
TrimLeadingOnly(s) == TrimStart(s)

Trim(s) == TrimEnd(TrimStart(s))

(***************************************************************************)
(* JSON.stringify on a list of todos (part_000:47).  The properties of a   *)
(* todo are written in the order id, text, completed, the order in which   *)
(* addTodo and setDefaultTodos create them and the spread keeps them.      *)
(***************************************************************************)
Digits == <<"0", "1", "2", "3", "4", "5", "6", "7", "8", "9">>
TrueText == <<"t", "r", "u", "e">>
FalseText == <<"f", "a", "l", "s", "e">>
NullText == <<"n", "u", "l", "l">>
IdKey == <<"i", "d">>
TextKey == <<"t", "e", "x", "t">>
CompletedKey == <<"c", "o", "m", "p", "l", "e", "t", "e", "d">>

RECURSIVE NumberToString(_)
NumberToString(n) ==
    IF n < 10 THEN <<Digits[n + 1]>>
    ELSE NumberToString(n \div 10) \o <<Digits[(n % 10) + 1]>>

RECURSIVE EscapeChars(_)
EscapeChars(s) ==
    IF s = <<>> THEN <<>>
    ELSE (IF Head(s) \in {"\"", "\\"} THEN <<"\\", Head(s)>> ELSE <<Head(s)>>)
         \o EscapeChars(Tail(s))

QuoteString(s) == <<"\"">> \o EscapeChars(s) \o <<"\"">>

\* the properties of obj as "key":value texts, in property order
StringifyProperties(obj) ==
    (IF Has(obj, "id")
        THEN << QuoteString(IdKey) \o <<":">> \o NumberToString(obj.id) >>
        ELSE <<>>)
    \o (IF Has(obj, "text")
        THEN << QuoteString(TextKey) \o <<":">> \o QuoteString(obj.text) >>
        ELSE <<>>)
    \o (IF Has(obj, "completed")
        THEN << QuoteString(CompletedKey) \o <<":">>
                \o (IF obj.completed THEN TrueText ELSE FalseText) >>
        ELSE <<>>)

\* the texts of parts joined by commas
RECURSIVE JoinWithCommas(_)
JoinWithCommas(parts) ==
    IF parts = <<>> THEN <<>>
    ELSE IF Len(parts) = 1 THEN parts[1]
    ELSE parts[1] \o <<",">> \o JoinWithCommas(Tail(parts))

\* an array element: null and undefined are written as null
StringifyElement(e) ==
    IF e \in {Null, Undefined} THEN NullText
    ELSE <<"{">> \o JoinWithCommas(StringifyProperties(e)) \o <<"}">>

JSONstringify(list) ==
    <<"[">> \o JoinWithCommas([i \in 1..Len(list) |-> StringifyElement(list[i])])
    \o <<"]">>

(***************************************************************************)
(* JSON.parse (part_000:24): a recursive descent over the characters.  A   *)
(* parsed value is a node [t |-> type, v |-> value]; the elements of an    *)
(* array and the properties of an object are nodes again.  Of the string   *)
(* escapes only \" and \\ exist in the model's alphabet, and numbers are   *)
(* the non-negative integers.                                              *)
(***************************************************************************)
ParseFail == [ok |-> FALSE]
ParseOk(node, next) == [ok |-> TRUE, node |-> node, next |-> next]

RECURSIVE SkipBlanks(_, _)
SkipBlanks(s, i) ==
    IF i <= Len(s) /\ s[i] = " " THEN SkipBlanks(s, i + 1) ELSE i

\* the characters of word stand at s[i], s[i+1], ...
Matches(s, i, word) ==
    /\ i + Len(word) - 1 <= Len(s)
    /\ \A k \in 1..Len(word) : s[i + k - 1] = word[k]

DigitValue(c) == CHOOSE d \in 0..9 : Digits[d + 1] = c
IsDigit(c) == \E d \in 0..9 : Digits[d + 1] = c

\* the property name spelled by chars
KeyOf(chars) ==
    IF chars = IdKey THEN "id"
    ELSE IF chars = TextKey THEN "text"
    ELSE IF chars = CompletedKey THEN "completed"
    ELSE "other"

RECURSIVE ParseDigits(_, _, _)
ParseDigits(s, i, acc) ==
    IF i <= Len(s) /\ IsDigit(s[i])
        THEN ParseDigits(s, i + 1, 10 * acc + DigitValue(s[i]))
        ELSE ParseOk([t |-> "number", v |-> acc], i)

\* a number: no leading zero before another digit
ParseNumber(s, i) ==
    IF s[i] = "0" THEN ParseOk([t |-> "number", v |-> 0], i + 1)
    ELSE ParseDigits(s, i, 0)

\* the characters of a string after its opening quote
RECURSIVE ParseStringChars(_, _, _)
ParseStringChars(s, i, acc) ==
    IF i > Len(s) THEN ParseFail
    ELSE IF s[i] = "\"" THEN ParseOk([t |-> "string", v |-> acc], i + 1)
    ELSE IF s[i] = "\\"
        THEN IF i + 1 <= Len(s) /\ s[i + 1] \in {"\"", "\\"}
                THEN ParseStringChars(s, i + 2, Append(acc, s[i + 1]))
                ELSE ParseFail
    ELSE ParseStringChars(s, i + 1, Append(acc, s[i]))

RECURSIVE ParseValue(_, _)
RECURSIVE ParseElements(_, _, _)
RECURSIVE ParseMembers(_, _, _)

\* the elements of an array after "[" or ",", up to and including "]"
ParseElements(s, i, acc) ==
    LET r == ParseValue(s, i) IN
    IF ~r.ok THEN ParseFail
    ELSE LET j == SkipBlanks(s, r.next) IN
         IF j > Len(s) THEN ParseFail
         ELSE IF s[j] = "," THEN ParseElements(s, j + 1, Append(acc, r.node))
         ELSE IF s[j] = "]"
            THEN ParseOk([t |-> "array", v |-> Append(acc, r.node)], j + 1)
         ELSE ParseFail

\* the members of an object after "{" or ",", up to and including "}"
ParseMembers(s, i0, acc) ==
    LET i == SkipBlanks(s, i0) IN
    IF i > Len(s) \/ s[i] # "\"" THEN ParseFail
    ELSE LET k == ParseStringChars(s, i + 1, <<>>) IN
         IF ~k.ok THEN ParseFail
         ELSE LET c == SkipBlanks(s, k.next) IN
              IF c > Len(s) \/ s[c] # ":" THEN ParseFail
              ELSE LET r == ParseValue(s, c + 1) IN
                   IF ~r.ok THEN ParseFail
                   ELSE LET j == SkipBlanks(s, r.next)
                            obj == Spread(acc, KeyOf(k.node.v), r.node)
                        IN  IF j > Len(s) THEN ParseFail
                            ELSE IF s[j] = "," THEN ParseMembers(s, j + 1, obj)
                            ELSE IF s[j] = "}"
                                THEN ParseOk([t |-> "object", v |-> obj], j + 1)
                            ELSE ParseFail

ParseValue(s, i0) ==
    LET i == SkipBlanks(s, i0) IN
    IF i > Len(s) THEN ParseFail
    ELSE IF s[i] = "[" THEN
        LET j == SkipBlanks(s, i + 1) IN
        IF j <= Len(s) /\ s[j] = "]"
            THEN ParseOk([t |-> "array", v |-> <<>>], j + 1)
            ELSE ParseElements(s, i + 1, <<>>)
    ELSE IF s[i] = "{" THEN
        LET j == SkipBlanks(s, i + 1) IN
        IF j <= Len(s) /\ s[j] = "}"
            THEN ParseOk([t |-> "object", v |-> <<>>], j + 1)
            ELSE ParseMembers(s, i + 1, <<>>)
    ELSE IF s[i] = "\"" THEN ParseStringChars(s, i + 1, <<>>)
    ELSE IF IsDigit(s[i]) THEN ParseNumber(s, i)
    ELSE IF Matches(s, i, TrueText)
        THEN ParseOk([t |-> "boolean", v |-> TRUE], i + Len(TrueText))
    ELSE IF Matches(s, i, FalseText)
        THEN ParseOk([t |-> "boolean", v |-> FALSE], i + Len(FalseText))
    ELSE IF Matches(s, i, NullText)
        THEN ParseOk([t |-> "null", v |-> Null], i + Len(NullText))
    ELSE ParseFail

\* JSON.parse(text): [ok |-> FALSE] stands for the SyntaxError it throws
JSONparse(text) ==
    LET r == ParseValue(text, 1) IN
    IF r.ok /\ SkipBlanks(text, r.next) = Len(text) + 1
        THEN [ok |-> TRUE, node |-> r.node]
        ELSE ParseFail

\* the JavaScript value of a parsed node
RECURSIVE ValueOf(_)
ValueOf(node) ==
    IF node.t = "array" THEN [i \in 1..Len(node.v) |-> ValueOf(node.v[i])]
    ELSE IF node.t = "object" THEN [k \in DOMAIN node.v |-> ValueOf(node.v[k])]
    ELSE node.v

(***************************************************************************)
(* The component's data.                                                   *)
(***************************************************************************)
\* the text of the todo with this id in the lists of SpecOps
TextFor(id) == IF id % 2 = 1 THEN <<"a">> ELSE <<"b", " ", "c">>

\* The list setDefaultTodos sets.  The three texts stand for the Japanese
\* texts of the source, which no code inspects.
DefaultTodos ==
    << [id |-> 1, text |-> <<"C", "l", "a", "u", "d", "e">>, completed |-> TRUE],
       [id |-> 2, text |-> <<"V", "e", "r", "c", "e", "l">>, completed |-> FALSE],
       [id |-> 3, text |-> <<"A", "p", "p">>, completed |-> FALSE] >>

\* what the user can type into the two input fields (onChange)
TypedTexts == { <<>>, <<" ">>, <<" ", "a", " ">>, <<"\"", "\\">> }

\* number | null as a sequence of at most one number: <<>> is null
NoId == <<>>
SomeId(id) == <<id>>

\* localStorage.getItem / setItem
HasItem(st, key) == key \in DOMAIN st
SetItem(st, key, value) == Spread(st, key, value)

\* What localStorage can hold under 'todos' when a session starts.
OldTodos == << [id |-> 5, text |-> <<"o", "\"">>, completed |-> TRUE] >>
StoredPayloads ==
    { <<>>,                                             \* the empty string
      <<"[", "{", "\"", "i", "d", "\"", ":", "5", ",">>,  \* truncated text
      <<"[", "]">>,                                     \* the empty list
      JSONstringify(OldTodos),                          \* a list an earlier session saved
      NullText,                                         \* null
      <<"{", "\"", "i", "d", "\"", ":", "5", "}">>,       \* an object, not a list
      JSONstringify(<< [id |-> 5, text |-> <<"o">>] >>) } \* a list of objects without completed
InitialStorages ==
    { <<>> } \cup { [todos |-> p] : p \in StoredPayloads }

(***************************************************************************)
(* Rendering and the effects.                                              *)
(***************************************************************************)
\* The render body reads todo.completed of every element (part_000:159) and
\* throws a TypeError on an element that is null or undefined.
CanRender(list) == \A i \in 1..Len(list) : list[i] \notin {Null, Undefined}

\* The same for a value JSON.parse returned: anything but an array has no
\* filter method.
CanRenderNode(node) ==
    /\ node.t = "array"
    /\ \A i \in 1..Len(node.v) : node.v[i].t # "null"

\* setDefaultTodos                                       part_000:35-42
setDefaultTodos == DefaultTodos

\* LoadEffect with a stored empty list taken for no stored list
LoadEffectEmptyAsAbsent(st) ==
    IF HasItem(st, "todos") /\ st.todos # <<>> /\ st.todos # <<"[", "]">>
        THEN LET parsed == JSONparse(st.todos) IN
             IF parsed.ok
                THEN [todos |-> ValueOf(parsed.node), isLoaded |-> TRUE,
                      renders |-> CanRenderNode(parsed.node)]
                ELSE [todos |-> setDefaultTodos, isLoaded |-> TRUE, renders |-> TRUE]
        ELSE [todos |-> setDefaultTodos, isLoaded |-> TRUE, renders |-> TRUE]

\* The effect that loads (part_000:20-33): the state updates it queues.
LoadEffect(st) ==
    IF HasItem(st, "todos") /\ st.todos # <<>>
        THEN LET parsed == JSONparse(st.todos) IN
             IF parsed.ok
                THEN [todos |-> ValueOf(parsed.node), isLoaded |-> TRUE,
                      renders |-> CanRenderNode(parsed.node)]
                ELSE [todos |-> setDefaultTodos, isLoaded |-> TRUE, renders |-> TRUE]
        ELSE [todos |-> setDefaultTodos, isLoaded |-> TRUE, renders |-> TRUE]

\* SaveEffect without its test of isLoaded
SaveEffectUnguarded(loaded, list, st) == SetItem(st, "todos", JSONstringify(list))

\* The effect that saves (part_000:45-49), run with the values of its render.
SaveEffect(loaded, list, st) ==
    IF loaded THEN SetItem(st, "todos", JSONstringify(list)) ELSE st

NoUpdate == [todos |-> <<>>, isLoaded |-> FALSE, renders |-> TRUE]
NoIntent == [op |-> "none", arg |-> 0]

(***************************************************************************)
(* Mounting: the first render shows the spinner (part_000:162-171), then   *)
(* the two effects run in the order of their declaration with the values   *)
(* of that render, then the queued updates are rendered and the effect     *)
(* that saves runs again because todos and isLoaded changed.               *)
(***************************************************************************)
Init ==
    /\ pc = "mounted"
    /\ todos = <<>>
    /\ inputText = <<>>
    /\ isLoaded = FALSE
    /\ editingId = NoId
    /\ editingText = <<>>
    /\ storage \in InitialStorages
    /\ now = StartTime
    /\ pend = NoUpdate
    /\ issued = {}
    /\ steps = 0
    /\ last = NoIntent
    /\ prev = <<>>

MountLoadEffect ==
    /\ pc = "mounted"
    /\ pend' = LoadEffect(storage)
    /\ pc' = "mount_save"
    /\ UNCHANGED <<todos, inputText, isLoaded, editingId, editingText, storage,
                   now, issued, steps, last, prev>>

MountSaveEffect ==
    /\ pc = "mount_save"
    /\ storage' = SaveEffect(isLoaded, todos, storage)
    /\ pc' = "rerender"
    /\ UNCHANGED <<todos, inputText, isLoaded, editingId, editingText, now,
                   pend, issued, steps, last, prev>>

Rerender ==
    /\ pc = "rerender"
    /\ todos' = pend.todos
    /\ isLoaded' = pend.isLoaded
    /\ pend' = NoUpdate
    /\ IF pend.renders
          THEN /\ storage' = SaveEffect(pend.isLoaded, pend.todos, storage)
               /\ pc' = "ready"
          ELSE /\ storage' = storage
               /\ pc' = "crashed"
    /\ UNCHANGED <<inputText, editingId, editingText, now, issued, steps, last, prev>>

(***************************************************************************)
(* The functions the handlers pass to setTodos.                            *)
(***************************************************************************)
\* todo.id === id
IdIs(todo, id) == Has(todo, "id") /\ todo.id = id

\* !todo.completed, where !undefined is true
NotCompleted(todo) == IF Has(todo, "completed") THEN ~todo.completed ELSE TRUE

\* arr[index]: undefined outside the array
At(arr, index) ==
    IF index \in 0..(Len(arr) - 1) THEN arr[index + 1] ELSE Undefined

\* arr[index] = value: an index at or beyond the length extends the array,
\* the elements in between read as undefined; a negative index sets a
\* property that is no element
SetAt(arr, index, value) ==
    IF index < 0 THEN arr
    ELSE IF index < Len(arr) THEN [arr EXCEPT ![index + 1] = value]
    ELSE arr \o [k \in 1..(index - Len(arr)) |-> Undefined] \o <<value>>

\* [arr[i], arr[j]] = [arr[j], arr[i]] on a copy of arr
SwapAt(arr, i, j) ==
    LET first == At(arr, j)
        second == At(arr, i)
    IN  SetAt(SetAt(arr, i, first), j, second)

\* addTodoUpdater putting the new todo first
addTodoUpdaterPrepend(prevTodos, newTodo) == <<newTodo>> \o prevTodos

\* prevTodos => [...prevTodos, newTodo]                    part_000:58
addTodoUpdater(prevTodos, newTodo) == Append(prevTodos, newTodo)

\* toggleTodoUpdater marking the todo completed instead of flipping it
toggleTodoUpdaterSetTrue(prevTodos, id) ==
    [i \in 1..Len(prevTodos) |->
        IF IdIs(prevTodos[i], id)
            THEN Spread(prevTodos[i], "completed", TRUE)
            ELSE prevTodos[i]]

\* prevTodos.map(... completed: !todo.completed ...)       part_000:64-68
toggleTodoUpdater(prevTodos, id) ==
    [i \in 1..Len(prevTodos) |->
        IF IdIs(prevTodos[i], id)
            THEN Spread(prevTodos[i], "completed", NotCompleted(prevTodos[i]))
            ELSE prevTodos[i]]

\* deleteTodoUpdater with the comparison inverted
deleteTodoUpdaterKeepMatching(prevTodos, id) ==
    LET Keep(todo) == IdIs(todo, id) IN SelectSeq(prevTodos, Keep)

\* prevTodos.filter(todo => todo.id !== id)                part_000:72
deleteTodoUpdater(prevTodos, id) ==
    LET Keep(todo) == ~IdIs(todo, id) IN SelectSeq(prevTodos, Keep)

\* moveTodoUpUpdater exchanging with the successor
moveTodoUpUpdaterWrongNeighbour(prevTodos, index) == SwapAt(prevTodos, index, index + 1)

\* the swap of moveTodoUp                                  part_000:83-87
moveTodoUpUpdater(prevTodos, index) == SwapAt(prevTodos, index, index - 1)

\* moveTodoDownUpdater with the swap of moveTodoUp
moveTodoDownUpdaterSwapsUp(prevTodos, index) ==
    IF index < Len(prevTodos) - 1
        THEN SwapAt(prevTodos, index, index - 1)
        ELSE prevTodos

\* the function moveTodoDown passes to setTodos            part_000:93-100
moveTodoDownUpdater(prevTodos, index) ==
    IF index < Len(prevTodos) - 1
        THEN SwapAt(prevTodos, index, index + 1)
        ELSE prevTodos

\* prevTodos.map(... text: editingText.trim() ...)         part_000:112-116
saveEditUpdater(prevTodos, id, text) ==
    [i \in 1..Len(prevTodos) |->
        IF IdIs(prevTodos[i], id)
            THEN Spread(prevTodos[i], "text", text)
            ELSE prevTodos[i]]

(***************************************************************************)
(* The handlers.  A handler runs to its end, React renders the new state   *)
(* and runs the effect that saves when todos is a new array, all before    *)
(* the next event is handled.  A render that throws unmounts the           *)
(* component: nothing is saved and no handler can run any more.            *)
(***************************************************************************)
\* Commit with an effect that does not depend on todos, and so does not run
CommitWithoutSave(newTodos) ==
    /\ todos' = newTodos
    /\ storage' = storage
    /\ pc' = IF CanRender(newTodos) THEN "ready" ELSE "crashed"

\* setTodos(newTodos), the render and the effect that saves
Commit(newTodos) ==
    /\ todos' = newTodos
    /\ IF CanRender(newTodos)
          THEN /\ storage' = SaveEffect(isLoaded, newTodos, storage)
               /\ pc' = "ready"
          ELSE /\ storage' = storage
               /\ pc' = "crashed"

\* the values Date.now() can return: time does not run backwards, and within
\* the model's session at most MaxTicks milliseconds pass
DateNow == now..(StartTime + MaxTicks)

\* onChange of the new-task field                          part_000:200
setInputText(text) ==
    /\ inputText' = text
    /\ UNCHANGED <<pc, todos, isLoaded, editingId, editingText, storage, now,
                   pend, issued>>

\* part_000:51-61
addTodo ==
    /\ IF Trim(inputText) # <<>>
          THEN \E t \in DateNow :
                /\ now' = t
                /\ issued' = issued \cup {t}
                /\ Commit(addTodoUpdater(todos,
                            [id |-> t, text |-> Trim(inputText), completed |-> FALSE]))
                /\ inputText' = <<>>
          ELSE UNCHANGED <<pc, todos, storage, inputText, now, issued>>
    /\ UNCHANGED <<isLoaded, editingId, editingText, pend>>

\* part_000:63-69
toggleTodo(id) ==
    /\ Commit(toggleTodoUpdater(todos, id))
    /\ UNCHANGED <<inputText, isLoaded, editingId, editingText, now, pend, issued>>

\* deleteTodo as it was before the edit field existed: the cursor stays
deleteTodoKeepsCursor(id) ==
    /\ Commit(deleteTodoUpdater(todos, id))
    /\ UNCHANGED <<editingId, editingText, inputText, isLoaded, now, pend, issued>>

\* part_000:71-78
deleteTodo(id) ==
    /\ Commit(deleteTodoUpdater(todos, id))
    /\ IF editingId = SomeId(id)
          THEN editingId' = NoId /\ editingText' = <<>>
          ELSE UNCHANGED <<editingId, editingText>>
    /\ UNCHANGED <<inputText, isLoaded, now, pend, issued>>

\* part_000:81-89
moveTodoUp(index) ==
    /\ IF index > 0
          THEN Commit(moveTodoUpUpdater(todos, index))
          ELSE UNCHANGED <<pc, todos, storage>>
    /\ UNCHANGED <<inputText, isLoaded, editingId, editingText, now, pend, issued>>

\* part_000:92-101: the function returns prevTodos itself when it does not
\* swap, and React then neither renders nor runs the effect
moveTodoDown(index) ==
    /\ IF index < Len(todos) - 1
          THEN Commit(moveTodoDownUpdater(todos, index))
          ELSE UNCHANGED <<pc, todos, storage>>
    /\ UNCHANGED <<inputText, isLoaded, editingId, editingText, now, pend, issued>>

\* part_000:104-107
startEditing(id, currentText) ==
    /\ editingId' = SomeId(id)
    /\ editingText' = currentText
    /\ UNCHANGED <<pc, todos, inputText, isLoaded, storage, now, pend, issued>>

\* onChange of the edit field                              part_000:277
setEditingText(text) ==
    /\ editingText' = text
    /\ UNCHANGED <<pc, todos, inputText, isLoaded, editingId, storage, now,
                   pend, issued>>

\* saveEdit clearing the cursor only when it applied the draft
saveEditKeepsCursorOnEmpty ==
    /\ IF Trim(editingText) # <<>> /\ editingId # NoId
          THEN /\ Commit(saveEditUpdater(todos, editingId[1], Trim(editingText)))
               /\ editingId' = NoId
               /\ editingText' = <<>>
          ELSE UNCHANGED <<pc, todos, storage, editingId, editingText>>
    /\ UNCHANGED <<inputText, isLoaded, now, pend, issued>>

\* part_000:110-120
saveEdit ==
    /\ IF Trim(editingText) # <<>> /\ editingId # NoId
          THEN Commit(saveEditUpdater(todos, editingId[1], Trim(editingText)))
          ELSE UNCHANGED <<pc, todos, storage>>
    /\ editingId' = NoId
    /\ editingText' = <<>>
    /\ UNCHANGED <<inputText, isLoaded, now, pend, issued>>

\* part_000:123-126
cancelEdit ==
    /\ editingId' = NoId
    /\ editingText' = <<>>
    /\ UNCHANGED <<pc, todos, inputText, isLoaded, storage, now, pend, issued>>

\* clearAllTodos as it was before the edit field existed: the cursor stays
clearAllTodosKeepsCursor(confirmed) ==
    /\ IF confirmed
          THEN Commit(<<>>)
          ELSE UNCHANGED <<pc, todos, storage>>
    /\ UNCHANGED <<editingId, editingText, inputText, isLoaded, now, pend, issued>>

\* part_000:143-149; confirmed is the answer of window.confirm
clearAllTodos(confirmed) ==
    /\ IF confirmed
          THEN /\ Commit(<<>>)
               /\ editingId' = NoId
               /\ editingText' = <<>>
          ELSE UNCHANGED <<pc, todos, storage, editingId, editingText>>
    /\ UNCHANGED <<inputText, isLoaded, now, pend, issued>>

\* part_000:151-157
resetToDefault(confirmed) ==
    /\ IF confirmed
          THEN /\ Commit(setDefaultTodos)
               /\ editingId' = NoId
               /\ editingText' = <<>>
          ELSE UNCHANGED <<pc, todos, storage, editingId, editingText>>
    /\ UNCHANGED <<inputText, isLoaded, now, pend, issued>>

(***************************************************************************)
(* Spec: the mounted component, driven through what it renders.  The       *)
(* buttons of a todo exist for the todos of the list, the arrows are       *)
(* disabled at the ends of the list (part_000:236, 247), the edit field    *)
(* exists for the todo being edited (part_000:272) and the two management  *)
(* buttons exist while the list is not empty (part_000:373).               *)
(***************************************************************************)
\* the handlers are reachable once the list is rendered instead of the
\* spinner (part_000:162-171)
Ready == isLoaded /\ pc = "ready" /\ steps < MaxIntents

Record(op, arg) ==
    /\ steps' = steps + 1
    /\ last' = [op |-> op, arg |-> arg]
    /\ UNCHANGED prev

Shown == { i \in 1..Len(todos) : Has(todos[i], "id") }
Editing == \E i \in Shown : editingId = SomeId(todos[i].id)

TypeInput ==
    /\ Ready
    /\ \E text \in TypedTexts : setInputText(text) /\ Record("setInputText", 0)

ClickAdd ==
    /\ Ready
    /\ addTodo /\ Record("add", 0)

ClickToggle ==
    /\ Ready
    /\ \E i \in Shown : toggleTodo(todos[i].id) /\ Record("toggle", todos[i].id)

ClickDelete ==
    /\ Ready
    /\ \E i \in Shown : deleteTodo(todos[i].id) /\ Record("remove", todos[i].id)

ClickUp ==
    /\ Ready
    /\ \E index \in 1..(Len(todos) - 1) : moveTodoUp(index) /\ Record("moveUp", index)

ClickDown ==
    /\ Ready
    /\ \E index \in 0..(Len(todos) - 2) : moveTodoDown(index) /\ Record("moveDown", index)

ClickEdit ==
    /\ Ready
    /\ \E i \in Shown :
        /\ editingId # SomeId(todos[i].id)
        /\ Has(todos[i], "text")
        /\ startEditing(todos[i].id, todos[i].text)
        /\ Record("startEdit", todos[i].id)

TypeEdit ==
    /\ Ready
    /\ Editing
    /\ \E text \in TypedTexts : setEditingText(text) /\ Record("updateDraft", 0)

ClickSave ==
    /\ Ready
    /\ Editing
    /\ saveEdit /\ Record("commitEdit", 0)

ClickCancel ==
    /\ Ready
    /\ Editing
    /\ cancelEdit /\ Record("cancelEdit", 0)

ClickClearAll ==
    /\ Ready
    /\ Len(todos) > 0
    /\ \E confirmed \in BOOLEAN :
        clearAllTodos(confirmed) /\ Record("clearAll", IF confirmed THEN 1 ELSE 0)

ClickReset ==
    /\ Ready
    /\ Len(todos) > 0
    /\ \E confirmed \in BOOLEAN :
        resetToDefault(confirmed) /\ Record("resetToDefault", IF confirmed THEN 1 ELSE 0)

Next ==
    \/ MountLoadEffect
    \/ MountSaveEffect
    \/ Rerender
    \/ TypeInput
    \/ ClickAdd
    \/ ClickToggle
    \/ ClickDelete
    \/ ClickUp
    \/ ClickDown
    \/ ClickEdit
    \/ TypeEdit
    \/ ClickSave
    \/ ClickCancel
    \/ ClickClearAll
    \/ ClickReset

Spec == Init /\ [][Next]_vars

(***************************************************************************)
(* SpecOps: the handlers that take an id or an index, called on every      *)
(* list of at most MaxLen todos with distinct ids, with every id and       *)
(* every index, also the ids no todo has and the indexes outside the list. *)
(* last and prev record the call before and the list it was applied to.    *)
(***************************************************************************)
OpsTodos == { [id |-> id, text |-> TextFor(id), completed |-> c] :
                id \in 1..MaxLen, c \in BOOLEAN }
OpsLists ==
    { l \in UNION { [1..n -> OpsTodos] : n \in 0..MaxLen } :
        \A i, j \in 1..Len(l) : l[i].id = l[j].id => i = j }
OpsIds == 1..(MaxLen + 1)
OpsIndexes == (-1)..(MaxLen + 1)

InitOps ==
    /\ pc = "ready"
    /\ todos \in OpsLists
    /\ inputText = <<>>
    /\ isLoaded = TRUE
    /\ editingId = NoId
    /\ editingText = <<>>
    /\ storage = SaveEffect(TRUE, todos, <<>>)
    /\ now = StartTime
    /\ pend = NoUpdate
    /\ issued = {}
    /\ steps = 0
    /\ last = NoIntent
    /\ prev = <<>>

RecordOps(op, arg) ==
    /\ last' = [op |-> op, arg |-> arg]
    /\ prev' = todos
    /\ UNCHANGED steps

CallToggle ==
    /\ pc = "ready"
    /\ \E id \in OpsIds : toggleTodo(id) /\ RecordOps("toggle", id)

CallDelete ==
    /\ pc = "ready"
    /\ \E id \in OpsIds : deleteTodo(id) /\ RecordOps("remove", id)

CallUp ==
    /\ pc = "ready"
    /\ \E index \in OpsIndexes : moveTodoUp(index) /\ RecordOps("moveUp", index)

CallDown ==
    /\ pc = "ready"
    /\ \E index \in OpsIndexes : moveTodoDown(index) /\ RecordOps("moveDown", index)

NextOps ==
    \/ CallToggle
    \/ CallDelete
    \/ CallUp
    \/ CallDown

SpecOps == InitOps /\ [][NextOps]_vars

\* First visit: nothing is stored, the load effect installs the default list
\* (part_000:20-42) and every later list comes from it by the handlers.
InitDefault ==
    /\ Init
    /\ storage = <<>>

SpecDefault == InitDefault /\ [][Next]_vars

(***************************************************************************)
(* Properties.                                                             *)
(***************************************************************************)
MutatingOps == {"add", "toggle", "remove", "moveUp", "moveDown", "commitEdit",
                "clearAll", "resetToDefault"}

\* the list a session that starts with this storage shows after loading
FreshLoad(st) == LoadEffect(st)

\* C1: once loaded, after each list-mutating intent the entry 'todos' is the
\* JSON text of the current list, and a fresh session loading it gets exactly
\* the current list (same order, ids, texts and completed flags).
C1_SavedAfterEveryMutation ==
    last.op \in MutatingOps =>
        /\ pc = "ready"
        /\ HasItem(storage, "todos")
        /\ storage.todos = JSONstringify(todos)
        /\ FreshLoad(storage).renders
        /\ FreshLoad(storage).todos = todos

\* an added text with a quote and a backslash has been saved
C1_Witness ==
    /\ last.op = "add"
    /\ Len(todos) = 4
    /\ todos[4].text = <<"\"", "\\">>
    /\ FreshLoad(storage).todos = todos

\* C2: nothing is written to localStorage in a step that ends with isLoaded
\* false, and no intent is handled while isLoaded is false; so the mount never
\* replaces the stored entry by the initial empty list.
C2_NoWriteBeforeLoaded ==
    [][ /\ (storage' # storage => isLoaded')
        /\ (last' # last => isLoaded /\ pc = "ready")
        /\ (pc \in {"mounted", "mount_save"} => storage' = storage) ]_vars

\* the effect that saves has run before the load was rendered and the list
\* an earlier session stored is still there
C2_Witness ==
    /\ pc = "rerender"
    /\ ~isLoaded
    /\ todos = <<>>
    /\ storage = [todos |-> JSONstringify(OldTodos)]

\* text is JSON for a list of objects that have exactly a number id, a string
\* text and a boolean completed
IsTodoNode(node) ==
    /\ node.t = "object"
    /\ DOMAIN node.v = {"id", "text", "completed"}
    /\ node.v.id.t = "number"
    /\ node.v.text.t = "string"
    /\ node.v.completed.t = "boolean"
WellFormed(text) ==
    LET parsed == JSONparse(text) IN
    /\ parsed.ok
    /\ parsed.node.t = "array"
    /\ \A i \in 1..Len(parsed.node.v) : IsTodoNode(parsed.node.v[i])

\* C3: loading a stored entry that is not parseable, or parseable but not a
\* list of {id, text, completed} records, yields the default list and the
\* component renders it.
C3_MalformedYieldsDefaults ==
    (pc = "rerender" /\ HasItem(storage, "todos") /\ ~WellFormed(storage.todos)) =>
        (pend.renders /\ pend.todos = DefaultTodos)

\* C4: the load makes the list the default list when nothing is stored under
\* 'todos', and the parsed value itself when the entry is parseable; a stored
\* "[]" loads as the empty list.
C4_Load ==
    [][ pc = "rerender" =>
          /\ (~HasItem(storage, "todos") => pc' = "ready" /\ todos' = DefaultTodos)
          /\ (HasItem(storage, "todos") /\ storage.todos = <<"[", "]">> =>
                pc' = "ready" /\ todos' = <<>>)
          /\ (HasItem(storage, "todos") /\ storage.todos = JSONstringify(OldTodos) =>
                pc' = "ready" /\ todos' = OldTodos)
          /\ (HasItem(storage, "todos") /\ JSONparse(storage.todos).ok =>
                todos' = ValueOf(JSONparse(storage.todos).node)) ]_vars

\* a stored empty list has been loaded as the empty list
C4_Witness ==
    /\ pc = "ready"
    /\ steps = 0
    /\ todos = <<>>
    /\ storage = [todos |-> <<"[", "]">>]

\* C5: the list never holds two todos with the same id.
C5_UniqueIds ==
    pc = "ready" =>
        \A i, j \in 1..Len(todos) :
            (Has(todos[i], "id") /\ Has(todos[j], "id") /\ todos[i].id = todos[j].id)
                => i = j

\* n blanks
Blanks(n) == [k \in 1..n |-> " "]

\* inner is outer without the blanks at its two ends
IsTrimOf(inner, outer) ==
    /\ \E a, b \in 0..Len(outer) : outer = Blanks(a) \o inner \o Blanks(b)
    /\ (inner # <<>> => inner[1] # " " /\ inner[Len(inner)] # " ")

\* C6: add with a text that is not only blanks appends one todo with the
\* trimmed text and completed false and keeps the todos before it; add with an
\* empty or blank text leaves the list as it is.
C6_Add ==
    [][ (last'.op = "add" /\ steps' = steps + 1) =>
          IF \E k \in 1..Len(inputText) : inputText[k] # " "
             THEN /\ Len(todos') = Len(todos) + 1
                  /\ SubSeq(todos', 1, Len(todos)) = todos
                  /\ DOMAIN todos'[Len(todos')] = {"id", "text", "completed"}
                  /\ todos'[Len(todos')].id = now'
                  /\ todos'[Len(todos')].text # <<>>
                  /\ IsTrimOf(todos'[Len(todos')].text, inputText)
                  /\ todos'[Len(todos')].completed = FALSE
             ELSE todos' = todos ]_vars

\* " a " has been added to the default list as "a"
C6_Witness ==
    /\ last.op = "add"
    /\ Len(todos) = 4
    /\ SubSeq(todos, 1, 3) = DefaultTodos
    /\ todos[4].text = <<"a">>
    /\ ~todos[4].completed

\* new is old with completed negated on the todos with this id, all else kept
FlippedAt(old, new, id) ==
    /\ Len(new) = Len(old)
    /\ \A i \in 1..Len(old) :
        /\ DOMAIN new[i] = DOMAIN old[i]
        /\ new[i].id = old[i].id
        /\ new[i].text = old[i].text
        /\ new[i].completed =
             (IF old[i].id = id THEN ~old[i].completed ELSE old[i].completed)

\* C7: toggle(id) negates completed of the todo with that id and keeps the
\* order, ids, texts and the other todos; with an id no todo has the list
\* stays as it is; a second toggle(id) right after the first gives back the
\* list from before the first.
C7_Toggle ==
    [][ last'.op = "toggle" =>
          /\ pc' = "ready"
          /\ FlippedAt(todos, todos', last'.arg)
          /\ ((\A i \in 1..Len(todos) : todos[i].id # last'.arg) => todos' = todos)
          /\ (last = last' => todos' = prev) ]_vars

\* toggle(2) has completed the first of three todos
C7_Witness ==
    /\ pc = "ready"
    /\ last = [op |-> "toggle", arg |-> 2]
    /\ Len(todos) = 3
    /\ todos[1].id = 2
    /\ todos[1].completed
    /\ ~prev[1].completed

\* new is old without its todo with this id (the ids of old are distinct)
RemovedAt(old, new, id) ==
    IF \E k \in 1..Len(old) : old[k].id = id
        THEN \E k \in 1..Len(old) :
                /\ old[k].id = id
                /\ new = SubSeq(old, 1, k - 1) \o SubSeq(old, k + 1, Len(old))
        ELSE new = old

\* C8: remove(id) deletes the todo with that id and keeps the others in their
\* order; with an id no todo has the list stays as it is, so a second
\* remove(id) right after the first changes nothing.
C8_Remove ==
    [][ last'.op = "remove" =>
          /\ pc' = "ready"
          /\ RemovedAt(todos, todos', last'.arg)
          /\ (last = last' => todos' = todos /\ Len(todos') = Len(todos)) ]_vars

\* remove(2) has deleted the middle one of three todos
C8_Witness ==
    /\ pc = "ready"
    /\ last = [op |-> "remove", arg |-> 2]
    /\ Len(prev) = 3
    /\ prev[2].id = 2
    /\ todos = <<prev[1], prev[3]>>

\* new is old with the elements at the indexes a and b (from 0) exchanged
ExchangedAt(old, new, a, b) ==
    /\ Len(new) = Len(old)
    /\ new[a + 1] = old[b + 1]
    /\ new[b + 1] = old[a + 1]
    /\ \A k \in 1..Len(old) : k \notin {a + 1, b + 1} => new[k] = old[k]

\* C9: for an index of the list, moveUp(index) exchanges the todos at index-1
\* and index and moveDown(index) those at index and index+1, all other
\* positions kept; moveUp(0) and moveDown(last index) leave the list as it is.
C9_Move ==
    [][ /\ (last'.op = "moveUp" /\ last'.arg \in 0..(Len(todos) - 1)) =>
              /\ pc' = "ready"
              /\ IF last'.arg = 0
                    THEN todos' = todos
                    ELSE ExchangedAt(todos, todos', last'.arg - 1, last'.arg)
        /\ (last'.op = "moveDown" /\ last'.arg \in 0..(Len(todos) - 1)) =>
              /\ pc' = "ready"
              /\ IF last'.arg = Len(todos) - 1
                    THEN todos' = todos
                    ELSE ExchangedAt(todos, todos', last'.arg, last'.arg + 1) ]_vars

\* moveUp(2) has exchanged the last two of three todos
C9_Witness ==
    /\ pc = "ready"
    /\ last = [op |-> "moveUp", arg |-> 2]
    /\ Len(todos) = 3
    /\ todos = <<prev[1], prev[3], prev[2]>>

\* C10: moveUp(i) with 0 < i < length, followed by moveDown(i-1), gives back
\* the list from before the moveUp.
C10_MoveUpThenDown ==
    [][ ( /\ last.op = "moveUp"
          /\ 0 < last.arg
          /\ last.arg < Len(prev)
          /\ last'.op = "moveDown"
          /\ last'.arg = last.arg - 1 ) => (pc' = "ready" /\ todos' = prev) ]_vars

\* moveDown(1) has been applied to the list moveUp(2) makes of the current one
C10_Witness ==
    /\ pc = "ready"
    /\ last = [op |-> "moveDown", arg |-> 1]
    /\ Len(todos) = 3
    /\ prev = <<todos[1], todos[3], todos[2]>>
    /\ todos[2] # todos[3]

\* C11: moveUp or moveDown with an index below 0 or at or beyond the length
\* is a silent no-op: the list stays as it is and nothing is raised.
C11_OutOfBoundsMoveIsNoOp ==
    [][ ( /\ last'.op \in {"moveUp", "moveDown"}
          /\ (last'.arg < 0 \/ last'.arg >= Len(todos)) )
            => (pc' = "ready" /\ todos' = todos) ]_vars

\* text has a character that is no blank
HasNonBlank(text) == \E k \in 1..Len(text) : text[k] # " "

\* new is old with the text of the todos with this id replaced by the draft
\* without the blanks at its ends, all else kept
TextSetAt(old, new, id, draft) ==
    /\ Len(new) = Len(old)
    /\ \A i \in 1..Len(old) :
        IF IdIs(old[i], id)
            THEN /\ DOMAIN new[i] = (DOMAIN old[i]) \cup {"text"}
                 /\ new[i].text # <<>>
                 /\ IsTrimOf(new[i].text, draft)
                 /\ \A k \in (DOMAIN old[i]) \ {"text"} : new[i][k] = old[i][k]
            ELSE new[i] = old[i]

\* C12: commitEdit with a cursor and a draft that is not only blanks sets the
\* text of the todo with the cursor's id to the trimmed draft and changes
\* nothing else; with an empty or blank draft the list stays as it is; the
\* cursor is cleared in both cases.
C12_CommitEdit ==
    [][ (last'.op = "commitEdit" /\ steps' = steps + 1) =>
          /\ editingId' = NoId
          /\ editingText' = <<>>
          /\ pc' = "ready"
          /\ IF HasNonBlank(editingText) /\ editingId # NoId
                THEN TextSetAt(todos, todos', editingId[1], editingText)
                ELSE todos' = todos ]_vars

\* the third default todo has been edited to " a " and committed as "a"
C12_Witness ==
    /\ pc = "ready"
    /\ last.op = "commitEdit"
    /\ editingId = NoId
    /\ Len(todos) = 3
    /\ todos[1] = DefaultTodos[1]
    /\ todos[2] = DefaultTodos[2]
    /\ todos[3] = [id |-> 3, text |-> <<"a">>, completed |-> FALSE]

\* C13: starting from the default list, whatever handlers run, every todo
\* has a text that is not empty and has no blank at either end.
C13_TextsTrimmed ==
    pc = "ready" =>
        \A i \in 1..Len(todos) :
            /\ Has(todos[i], "text")
            /\ todos[i].text # <<>>
            /\ todos[i].text[1] # " "
            /\ todos[i].text[Len(todos[i].text)] # " "

\* the first default todo edited from the draft " a ", then another removed
C13_Witness ==
    /\ pc = "ready"
    /\ last.op = "remove"
    /\ Len(todos) = 2
    /\ todos[1].id = 1
    /\ todos[1].text = <<"a">>

\* C14: a confirmed clearAll leaves the empty list and a confirmed
\* resetToDefault leaves the three default todos, whatever the list was; both
\* leave no cursor; when the confirmation is declined the list and the cursor
\* stay as they were.
C14_ClearAndReset ==
    [][ (last'.op \in {"clearAll", "resetToDefault"} /\ steps' = steps + 1) =>
          IF last'.arg = 1
             THEN /\ pc' = "ready"
                  /\ todos' = IF last'.op = "clearAll" THEN <<>> ELSE DefaultTodos
                  /\ editingId' = NoId
                  /\ editingText' = <<>>
             ELSE /\ pc' = pc
                  /\ todos' = todos
                  /\ editingId' = editingId
                  /\ editingText' = editingText ]_vars

\* a list that was changed and then reset after confirmation
C14_Witness ==
    /\ pc = "ready"
    /\ last = [op |-> "resetToDefault", arg |-> 1]
    /\ steps = MaxIntents
    /\ todos = DefaultTodos
    /\ editingId = NoId
    /\ storage = [todos |-> JSONstringify(DefaultTodos)]

\* the cursor names a todo of the list
CursorPresent ==
    editingId # NoId => \E i \in 1..Len(todos) : IdIs(todos[i], editingId[1])

\* C15: with startEdit only called for a todo of the list, a cursor that is
\* not null always names a todo of the list: removing the edited todo clears
\* the cursor, removing another todo leaves the cursor as it was, and
\* clearAll and resetToDefault clear it.
C15_CursorNamesPresentTodo ==
    [][ /\ pc' = "ready" => CursorPresent'
        /\ (last'.op = "remove" /\ steps' = steps + 1) =>
              IF editingId = SomeId(last'.arg)
                 THEN editingId' = NoId /\ editingText' = <<>>
                 ELSE editingId' = editingId /\ editingText' = editingText
        /\ ( /\ last'.op \in {"clearAll", "resetToDefault"}
             /\ last'.arg = 1
             /\ steps' = steps + 1 ) => editingId' = NoId ]_vars

\* the second todo is being edited and the first one has just been removed
C15_Witness ==
    /\ pc = "ready"
    /\ last = [op |-> "remove", arg |-> 1]
    /\ editingId = SomeId(2)
    /\ Len(todos) = 2
    /\ todos[1].id = 2

====
